---- MODULE Spec2Model ----
(***************************************************************************)
(* Model of main.py: the contact book (Field, Phone, Birthday, Record,     *)
(* AddressBook), the command handlers wrapped by input_error, and the      *)
(* dispatch of main.                                                       *)
(*                                                                         *)
(* A Python str is a sequence of characters; a character is a one-element  *)
(* TLA+ string.  Three non-ASCII characters are named by code point:       *)
(*   "U+0663"  ARABIC-INDIC DIGIT THREE  (isdigit, isdecimal, \d, int = 3) *)
(*   "U+00B2"  SUPERSCRIPT TWO           (isdigit, not isdecimal, not \d)  *)
(*   "U+00BD"  VULGAR FRACTION ONE HALF  (isnumeric only: not isdigit)     *)
(***************************************************************************)
EXTENDS Integers, Sequences, FiniteSets, TLC

VARIABLES book, prev, last

vars == <<book, prev, last>>

(***************************************************************************)
(* Bounds of the model.                                                    *)
(***************************************************************************)
\* most phones the records of the book are grown to, all together
MaxPhones == 3

(***************************************************************************)
(* Characters and str predicates.                                          *)
(***************************************************************************)
AsciiDigits == {"0", "1", "2", "3", "4", "5", "6", "7", "8", "9"}

\* characters c with c.isdigit()
DigitChars == AsciiDigits \cup {"U+0663", "U+00B2"}

\* characters matched by \d in a str pattern (Unicode category Nd)
DecimalChars == AsciiDigits \cup {"U+0663"}

\* int(c) of a decimal character
DecVal(c) ==
    CASE c = "0" -> 0 [] c = "1" -> 1 [] c = "2" -> 2 [] c = "3" -> 3
      [] c = "4" -> 4 [] c = "5" -> 5 [] c = "6" -> 6 [] c = "7" -> 7
      [] c = "8" -> 8 [] c = "9" -> 9 [] c = "U+0663" -> 3

\* s.isdigit(): non-empty and every character is a digit
isdigit(s) == Len(s) > 0 /\ \A i \in 1..Len(s) : s[i] \in DigitChars

\* the length a phone number must have
PhoneLen == 10

(***************************************************************************)
(* Phone.value setter: the value is kept unless it raises ValueError.      *)
(***************************************************************************)
PhoneRaises(value) == Len(value) # PhoneLen \/ ~isdigit(value)

(***************************************************************************)
(* The proleptic Gregorian calendar of datetime.                           *)
(***************************************************************************)
IsLeap(y) == (y % 4 = 0) /\ ((y % 100 # 0) \/ (y % 400 = 0))

DaysInMonth(y, m) ==
    IF m = 2 THEN (IF IsLeap(y) THEN 29 ELSE 28)
    ELSE IF m \in {4, 6, 9, 11} THEN 30 ELSE 31

RECURSIVE DaysBeforeMonth(_, _)
DaysBeforeMonth(y, m) ==
    IF m = 1 THEN 0 ELSE DaysBeforeMonth(y, m - 1) + DaysInMonth(y, m - 1)

DaysBeforeYear(y) ==
    (y - 1) * 365 + ((y - 1) \div 4) - ((y - 1) \div 100) + ((y - 1) \div 400)

\* date.toordinal(): the day number that orders datetimes and that
\* timedelta(days=n) adds to
Ordinal(dt) == DaysBeforeYear(dt.y) + DaysBeforeMonth(dt.y, dt.m) + dt.d

\* the (year, month, day) a datetime constructor accepts
ValidDate(y, m, d) ==
    /\ y \in 1..9999
    /\ m \in 1..12
    /\ d \in 1..DaysInMonth(y, m)

(***************************************************************************)
(* datetime.strptime(value, "%d.%m.%Y").  The format compiles to           *)
(*   (3[0-1]|[1-2]\d|0[1-9]|[1-9]| [1-9]) \. (1[0-2]|0[1-9]|[1-9]) \.      *)
(*   (\d\d\d\d)                                                            *)
(* which must match the whole string; the numbers found must then form a   *)
(* date.                                                                   *)
(***************************************************************************)
OneToNine == AsciiDigits \ {"0"}

DayField(t) ==
    \/ Len(t) = 2 /\ t[1] = "3" /\ t[2] \in {"0", "1"}
    \/ Len(t) = 2 /\ t[1] \in {"1", "2"} /\ t[2] \in DecimalChars
    \/ Len(t) = 2 /\ t[1] = "0" /\ t[2] \in OneToNine
    \/ Len(t) = 1 /\ t[1] \in OneToNine
    \/ Len(t) = 2 /\ t[1] = " " /\ t[2] \in OneToNine

MonthField(t) ==
    \/ Len(t) = 2 /\ t[1] = "1" /\ t[2] \in {"0", "1", "2"}
    \/ Len(t) = 2 /\ t[1] = "0" /\ t[2] \in OneToNine
    \/ Len(t) = 1 /\ t[1] \in OneToNine

YearField(t) == Len(t) = 4 /\ \A i \in 1..4 : t[i] \in DecimalChars

\* int(t) of a matched field (a leading space is stripped by int)
RECURSIVE IntOf(_)
IntOf(t) ==
    IF t = <<>> THEN 0
    ELSE IF t[1] = " " THEN IntOf(Tail(t))
    ELSE IntOf(SubSeq(t, 1, Len(t) - 1)) * 10 + DecVal(t[Len(t)])

\* the ways the pattern splits value into day, month and year fields
DateSplits(value) ==
    { ij \in (1..2) \X (1..2) :
        /\ Len(value) = ij[1] + ij[2] + 6
        /\ value[ij[1] + 1] = "."
        /\ value[ij[1] + ij[2] + 2] = "."
        /\ DayField(SubSeq(value, 1, ij[1]))
        /\ MonthField(SubSeq(value, ij[1] + 2, ij[1] + ij[2] + 1))
        /\ YearField(SubSeq(value, ij[1] + ij[2] + 3, Len(value))) }

DateOf(value, ij) ==
    [y |-> IntOf(SubSeq(value, ij[1] + ij[2] + 3, Len(value))),
     m |-> IntOf(SubSeq(value, ij[1] + 2, ij[1] + ij[2] + 1)),
     d |-> IntOf(SubSeq(value, 1, ij[1]))]

\* self.birthday is None
None == [y |-> 0, m |-> 0, d |-> 0]

\* strptime raises ValueError
StrptimeRaises(value) ==
    \/ DateSplits(value) = {}
    \/ \E ij \in DateSplits(value) :
           LET dt == DateOf(value, ij) IN ~ValidDate(dt.y, dt.m, dt.d)

\* the datetime (at midnight) strptime returns
Strptime(value) == DateOf(value, CHOOSE ij \in DateSplits(value) : TRUE)

(***************************************************************************)
(* Record.  A Record is its three fields; phones holds the values of its   *)
(* Phone objects in list order, birthday the parsed date or None.          *)
(***************************************************************************)
Record(name) == [name |-> name, phones |-> <<>>, birthday |-> None]

\* what a method call leaves: the record, and the ValueError it raised
Returned(r) == [raised |-> FALSE, rec |-> r, err |-> ""]

Raised(r, e) == [raised |-> TRUE, rec |-> r, err |-> e]

\* an argument that is a str, and one that is a Phone object
Str(s) == [type |-> "str", value |-> s]

PhoneObj(s) == [type |-> "Phone", value |-> s]

\* str(p) != x: a str differs from another str by value; Phone defines no
\* __eq__, so a str and a Phone object are never equal
StrNe(s, x) == IF x.type = "str" THEN s # x.value ELSE TRUE

add_phone(r, phone) ==
    IF PhoneRaises(phone)
    THEN Raised(r, "Phone number must be 10 digits")
    ELSE Returned([r EXCEPT !.phones = Append(@, phone)])

\* a delete_phone that removes the first match only, as list.remove would
delete_phone_first(r, phone) ==
    LET hits == {i \in 1..Len(r.phones) : ~StrNe(r.phones[i], phone)}
    IN IF hits = {}
       THEN r
       ELSE LET k == CHOOSE i \in hits : \A j \in hits : i <= j
            IN [r EXCEPT !.phones = SubSeq(@, 1, k - 1) \o SubSeq(@, k + 1, Len(@))]

delete_phone(r, phone) ==
    [r EXCEPT !.phones = SelectSeq(@, LAMBDA p : StrNe(p, phone))]

edit_phone(r, old_phone, new_phone) ==
    add_phone(delete_phone(r, old_phone), new_phone)

\* an add_birthday that does not look at the birthday already there
add_birthday_overwrite(r, birthday) ==
    IF StrptimeRaises(birthday)
    THEN Raised(r, "Invalid date format. Use DD.MM.YYYY")
    ELSE Returned([r EXCEPT !.birthday = Strptime(birthday)])

add_birthday(r, birthday) ==
    IF r.birthday = None
    THEN IF StrptimeRaises(birthday)
         THEN Raised(r, "Invalid date format. Use DD.MM.YYYY")
         ELSE Returned([r EXCEPT !.birthday = Strptime(birthday)])
    ELSE Raised(r, "Only one birthday allowed per contact")

\* the index of the first phone equal to the str phone, 0 for None
find_phone(r, phone) ==
    IF \E i \in 1..Len(r.phones) : r.phones[i] = phone
    THEN CHOOSE i \in 1..Len(r.phones) :
             /\ r.phones[i] = phone
             /\ \A j \in 1..(i - 1) : r.phones[j] # phone
    ELSE 0

\* Record.__str__
RecordStr(r) ==
    [name |-> r.name, phones |-> r.phones,
     birthday |-> IF r.birthday = None THEN <<"No birthday">>
                  ELSE <<r.birthday.y, r.birthday.m, r.birthday.d, 0, 0, 0>>]

(***************************************************************************)
(* AddressBook.  data is a dict keyed by name: the sequence of its values  *)
(* in insertion order; no two of them have the same name.                  *)
(***************************************************************************)
\* the index of the record data.get(name) returns, 0 for None
find(b, name) ==
    IF \E i \in 1..Len(b) : b[i].name = name
    THEN CHOOSE i \in 1..Len(b) : b[i].name = name
    ELSE 0

\* data[record.name.value] = record: a key already there keeps its place
add_record(b, record) ==
    IF find(b, record.name) = 0
    THEN Append(b, record)
    ELSE [b EXCEPT ![find(b, record.name)] = record]

\* a datetime as <<day number, time of day>>; a Birthday value is at midnight
Stamp(dt, tod) == <<Ordinal(dt), tod>>

DatetimeLe(a, b) == a[1] < b[1] \/ (a[1] = b[1] /\ a[2] <= b[2])

PlusDays(a, n) == <<a[1] + n, a[2]>>

\* the length of the window, timedelta(days=7)
WindowDays == 7

upcoming_birthdays(b, today) ==
    LET next_week == PlusDays(today, WindowDays)
    IN SelectSeq(b, LAMBDA record :
           /\ record.birthday # None
           /\ DatetimeLe(today, Stamp(record.birthday, 0))
           /\ DatetimeLe(Stamp(record.birthday, 0), next_week))

(***************************************************************************)
(* The command handlers, each wrapped by input_error: an IndexError,       *)
(* ValueError or KeyError becomes the returned message, and what the       *)
(* handler did to the book before it raised stays done.  args is a list of *)
(* tokens.                                                                 *)
(***************************************************************************)
Reply(b, msg, vals) == [book |-> b, raised |-> FALSE, msg |-> msg, vals |-> vals]

Caught(b, e) == [book |-> b, raised |-> TRUE, msg |-> e, vals |-> <<>>]

\* an add_contact that makes a new Record whether or not the name is known
add_contact_replace(args, b) ==
    IF Len(args) < 2
    THEN Caught(b, "not enough values to unpack (expected at least 2)")
    ELSE LET name == args[1]
             phone == args[2]
             b1 == add_record(b, Record(name))
             i == find(b1, name)
             res == add_phone(b1[i], phone)
         IN IF res.raised
            THEN Caught(b1, res.err)
            ELSE Reply([b1 EXCEPT ![i] = res.rec], "Contact added.", <<>>)

add_contact(args, b) ==
    IF Len(args) < 2
    THEN Caught(b, "not enough values to unpack (expected at least 2)")
    ELSE LET name == args[1]
             phone == args[2]
             isNew == find(b, name) = 0
             b1 == IF isNew THEN add_record(b, Record(name)) ELSE b
             i == find(b1, name)
             message == IF isNew THEN "Contact added." ELSE "Contact updated."
         IN IF phone # <<>>
            THEN LET res == add_phone(b1[i], phone)
                 IN IF res.raised
                    THEN Caught(b1, res.err)
                    ELSE Reply([b1 EXCEPT ![i] = res.rec], message, <<>>)
            ELSE Reply(b1, message, <<>>)

change_contact(args, b) ==
    IF Len(args) # 2
    THEN Caught(b, "wrong number of values to unpack (expected 2)")
    ELSE LET name == args[1]
             new_phone == args[2]
             i == find(b, name)
         IN IF i # 0
            THEN IF b[i].phones = <<>>
                 THEN Caught(b, "list index out of range")
                 ELSE LET res == edit_phone(b[i], PhoneObj(b[i].phones[1]),
                                            new_phone)
                      IN IF res.raised
                         THEN Caught([b EXCEPT ![i] = res.rec], res.err)
                         ELSE Reply([b EXCEPT ![i] = res.rec],
                                    "Phone number updated for", <<name>>)
            ELSE Reply(b, "No contact found with name", <<name>>)

show_phone(args, b) ==
    IF Len(args) # 2
    THEN Caught(b, "wrong number of values to unpack (expected 2)")
    ELSE LET name == args[1]
             i == find(b, name)
         IN IF i # 0
            THEN IF b[i].phones = <<>>
                 THEN Caught(b, "list index out of range")
                 ELSE Reply(b, "Phone number for", <<name, b[i].phones[1]>>)
            ELSE Reply(b, "No contact found with name", <<name>>)

show_all(b) ==
    IF b # <<>>
    THEN Reply(b, "all", [i \in 1..Len(b) |-> RecordStr(b[i])])
    ELSE Reply(b, "No contacts in the address book", <<>>)

add_birthday_cmd(args, b) ==
    IF Len(args) # 2
    THEN Caught(b, "wrong number of values to unpack (expected 2)")
    ELSE LET name == args[1]
             birthday == args[2]
             i == find(b, name)
         IN IF i # 0
            THEN LET res == add_birthday(b[i], birthday)
                 IN IF res.raised
                    THEN Caught([b EXCEPT ![i] = res.rec], res.err)
                    ELSE Reply([b EXCEPT ![i] = res.rec],
                               "Birthday added for", <<name>>)
            ELSE Reply(b, "No contact found with name", <<name>>)

show_birthday(args, b) ==
    IF Len(args) # 2
    THEN Caught(b, "wrong number of values to unpack (expected 2)")
    ELSE LET name == args[1]
             i == find(b, name)
         IN IF i # 0 /\ b[i].birthday # None
            THEN Reply(b, "Birthday for", <<name, RecordStr(b[i]).birthday>>)
            ELSE IF i # 0
                 THEN Reply(b, "No birthday set for", <<name>>)
                 ELSE Reply(b, "No contact found with name", <<name>>)

\* today is what datetime.today() returns during the call
birthdays(args, b, today) ==
    LET upcoming == upcoming_birthdays(b, today)
    IN IF upcoming # <<>>
       THEN Reply(b, "upcoming",
                  [i \in 1..Len(upcoming) |-> RecordStr(upcoming[i])])
       ELSE Reply(b, "No upcoming birthdays", <<>>)

(***************************************************************************)
(* main: one turn of the loop on a line that split() cut into tokens.      *)
(* parse_input returns the pair (command, args); main unpacks that pair    *)
(* with "command, *args", so the args it hands on is a one-element list    *)
(* holding the token list.  A line without tokens ends the process with an *)
(* IndexError and close/exit leave the loop: neither has a next state.     *)
(***************************************************************************)
parse_input(tokens) == <<Head(tokens), Tail(tokens)>>

main(tokens, b, today) ==
    LET parsed == parse_input(tokens)
        command == Head(parsed)
        args == Tail(parsed)
    IN CASE command = <<"h", "e", "l", "l", "o">> ->
                Reply(b, "How can I help you?", <<>>)
         [] command = <<"a", "d", "d">> -> add_contact(args, b)
         [] command = <<"c", "h", "a", "n", "g", "e">> -> change_contact(args, b)
         [] command = <<"p", "h", "o", "n", "e">> -> show_phone(args, b)
         [] command = <<"a", "l", "l">> -> show_all(b)
         [] command = <<"a", "d", "d", "-", "b", "i", "r", "t", "h", "d", "a", "y">> -> add_birthday_cmd(args, b)
         [] command = <<"s", "h", "o", "w", "-", "b", "i", "r", "t", "h", "d", "a", "y">> -> show_birthday(args, b)
         [] command = <<"b", "i", "r", "t", "h", "d", "a", "y", "s">> ->
                birthdays(args, b, today)
         [] OTHER -> Reply(b, "Invalid command.", <<>>)

(***************************************************************************)
(* Inputs.                                                                 *)
(***************************************************************************)
Ones(n) == [i \in 1..n |-> "1"]

P1 == Ones(10)

P2 == <<"0", "1", "2", "3", "4", "5", "6", "7", "8", "9">>

PShort == Ones(9)

PLong == Ones(11)

PAlpha == Ones(9) \o <<"a">>

PPlus == <<"+">> \o Ones(9)

PSpace == Ones(9) \o <<" ">>

PHalf == Ones(9) \o <<"U+00BD">>

PSuper == Ones(9) \o <<"U+00B2">>

\* "30.12.2029", "06.01.2030", "6.1.2030", "30.12.1990"
D30Dec2029 == <<"3", "0", ".", "1", "2", ".", "2", "0", "2", "9">>

D06Jan2030 == <<"0", "6", ".", "0", "1", ".", "2", "0", "3", "0">>

D6Jan2030 == <<"6", ".", "1", ".", "2", "0", "3", "0">>

D30Dec1990 == <<"3", "0", ".", "1", "2", ".", "1", "9", "9", "0">>

\* "31.02.2030" (no such day), "2029-12-30" (another format),
\* "30.12.29" (two-digit year), "30.12.2029x" (text after the date)
D31Feb2030 == <<"3", "1", ".", "0", "2", ".", "2", "0", "3", "0">>

DIso == <<"2", "0", "2", "9", "-", "1", "2", "-", "3", "0">>

DShortYear == <<"3", "0", ".", "1", "2", ".", "2", "9">>

DTrailing == D30Dec2029 \o <<"x">>

\* names as split() yields them: a token is never empty
Names == {<<"A">>, <<"B">>}

\* names a Record is constructed with
RecordNames == {<<"A">>, <<>>}

\* the values datetime.today() takes: a day, at midnight or at noon
Clock ==
    { <<Ordinal(dt), tod>> :
        dt \in {[y |-> 2029, m |-> 12, d |-> 29], [y |-> 2029, m |-> 12, d |-> 30],
                [y |-> 2029, m |-> 12, d |-> 31]},
        tod \in {0, 43200} }

NoClock == <<0, 0>>

(***************************************************************************)
(* State.  book is the AddressBook; prev is the book as the last call      *)
(* found it and last is that call, its arguments and what it returned.     *)
(***************************************************************************)
NoCall ==
    [op |-> "init", args |-> <<>>, now |-> NoClock, raised |-> FALSE,
     msg |-> "", vals |-> <<>>]

Init ==
    /\ book = <<>>
    /\ prev = <<>>
    /\ last = NoCall

RECURSIVE PhoneCount(_)
PhoneCount(b) ==
    IF b = <<>> THEN 0 ELSE Len(Head(b).phones) + PhoneCount(Tail(b))

Step(op, args, now, res) ==
    /\ PhoneCount(res.book) <= MaxPhones
    /\ book' = res.book
    /\ prev' = book
    /\ last' = [op |-> op, args |-> args, now |-> now, raised |-> res.raised,
                msg |-> res.msg, vals |-> res.vals]

(***************************************************************************)
(* The commands.                                                           *)
(***************************************************************************)
AddContact ==
    \E args \in {<<n, p>> : n \in Names, p \in {P1, P2, PSuper, PAlpha}}
                \cup {<<<<"A">>>>, <<<<"A">>, P1, P2>>} :
        Step("add", args, NoClock, add_contact(args, book))

ChangeContact ==
    \E args \in {<<n, p>> : n \in Names, p \in {P1, P2, PShort}}
                \cup {<<<<"A">>>>, <<<<"A">>, P1, P2>>} :
        Step("change", args, NoClock, change_contact(args, book))

ShowPhone ==
    \E args \in {<<<<"A">>>>, <<<<"B">>>>, <<<<"A">>, P1>>} :
        Step("phone", args, NoClock, show_phone(args, book))

ShowAll == Step("all", <<>>, NoClock, show_all(book))

AddBirthday ==
    \E args \in {<<n, d>> : n \in Names, d \in {D30Dec2029, D31Feb2030}}
                \cup {<<<<"A">>>>} :
        Step("add-birthday", args, NoClock, add_birthday_cmd(args, book))

ShowBirthday ==
    \E args \in {<<<<"A">>>>, <<<<"A">>, P1>>} :
        Step("show-birthday", args, NoClock, show_birthday(args, book))

Main ==
    \E tokens \in {<<<<"h", "e", "l", "l", "o">>>>,
                   <<<<"a", "d", "d">>, <<"B">>, P1>>,
                   <<<<"c", "h", "a", "n", "g", "e">>, <<"A">>, P2>>,
                   <<<<"p", "h", "o", "n", "e">>, <<"A">>>>,
                   <<<<"a", "l", "l">>>>,
                   <<<<"h", "i">>>>} :
        Step("main", tokens, NoClock, main(tokens, book, NoClock))

Next ==
    \/ AddContact
    \/ ChangeContact
    \/ ShowPhone
    \/ ShowAll
    \/ AddBirthday
    \/ ShowBirthday
    \/ Main

Spec == Init /\ [][Next]_vars

(***************************************************************************)
(* The birthday query: contacts, their birthdays, and the two ways to ask  *)
(* for the upcoming ones.                                                  *)
(***************************************************************************)
AddName ==
    \E n \in Names :
        Step("add", <<n, P1>>, NoClock, add_contact(<<n, P1>>, book))

SetBirthday ==
    \E n \in Names, d \in {D30Dec2029, D06Jan2030, D30Dec1990, D31Feb2030} :
        Step("add-birthday", <<n, d>>, NoClock, add_birthday_cmd(<<n, d>>, book))

Birthdays ==
    \E today \in Clock :
        Step("birthdays", <<>>, today, birthdays(<<>>, book, today))

UpcomingBirthdays ==
    \E today \in Clock :
        Step("upcoming_birthdays", <<>>, today,
             Reply(book, "", upcoming_birthdays(book, today)))

MainBirthdays ==
    \E today \in Clock :
        Step("main", <<<<"b", "i", "r", "t", "h", "d", "a", "y", "s">>>>, today,
             main(<<<<"b", "i", "r", "t", "h", "d", "a", "y", "s">>>>, book, today))

NextBirthdays ==
    \/ AddName
    \/ SetBirthday
    \/ Birthdays
    \/ UpcomingBirthdays
    \/ MainBirthdays

SpecBirthdays == Init /\ [][NextBirthdays]_vars

(***************************************************************************)
(* One Record and its methods, called as a library: a Record is           *)
(* constructed with a name and put in a new AddressBook; its methods are   *)
(* then called on it, and a ValueError a method raises reaches the caller. *)
(***************************************************************************)
NewRecord ==
    \E name \in RecordNames :
        Step("Record", <<name>>, NoClock,
             Reply(add_record(<<>>, Record(name)), "", <<>>))

Call(op, args, r, raised, msg, vals) ==
    Step(op, args, NoClock,
         [book |-> [book EXCEPT ![1] = r], raised |-> raised, msg |-> msg,
          vals |-> vals])

AddPhone ==
    /\ book # <<>>
    /\ \E phone \in {P1, P2, PSuper, PShort, PLong, PAlpha, PPlus, PSpace, PHalf,
                     <<>>} :
           LET res == add_phone(book[1], phone)
           IN Call("add_phone", <<phone>>, res.rec, res.raised, res.err, <<>>)

DeletePhone ==
    /\ book # <<>>
    /\ \E phone \in {P1, P2, PShort} :
           Call("delete_phone", <<phone>>, delete_phone(book[1], Str(phone)),
                FALSE, "", <<>>)

EditPhone ==
    /\ book # <<>>
    /\ \E old_phone \in {P1, P2}, new_phone \in {P1, P2, PSuper, PAlpha} :
           LET res == edit_phone(book[1], Str(old_phone), new_phone)
           IN Call("edit_phone", <<old_phone, new_phone>>, res.rec, res.raised,
                   res.err, <<>>)

AddBirthdayDate ==
    /\ book # <<>>
    /\ \E birthday \in {D30Dec2029, D6Jan2030, D31Feb2030, DIso, DShortYear,
                        DTrailing} :
           LET res == add_birthday(book[1], birthday)
           IN Call("add_birthday", <<birthday>>, res.rec, res.raised, res.err, <<>>)

FindPhone ==
    /\ book # <<>>
    /\ \E phone \in {P1, P2} :
           LET i == find_phone(book[1], phone)
           IN Call("find_phone", <<phone>>, book[1], FALSE, "",
                   IF i = 0 THEN <<>> ELSE <<book[1].phones[i]>>)

NextRecord ==
    \/ NewRecord
    \/ AddPhone
    \/ DeletePhone
    \/ EditPhone
    \/ AddBirthdayDate
    \/ FindPhone

SpecRecord == Init /\ [][NextRecord]_vars

(***************************************************************************)
(* Vocabulary of the properties.                                           *)
(***************************************************************************)
\* exactly ten characters, each one of 0-9
TenDigits(s) == Len(s) = 10 /\ \A i \in 1..Len(s) : s[i] \in AsciiDigits

Range(seq) == {seq[i] : i \in 1..Len(seq)}

\* the Record the last method call of SpecRecord found, and left
Before == prev[1]

After == book[1]

MethodCalled == last.op \notin {"init", "Record"}

(***************************************************************************)
(* C1.  Record.add_phone(number) succeeds and appends number to the end of *)
(* the phone list if and only if number is exactly 10 characters long and  *)
(* every character is one of 0-9; for every other string it fails and the  *)
(* phone list is left unchanged.                                           *)
(***************************************************************************)
C1_AddPhoneIffTenDigits ==
    last.op = "add_phone" =>
        IF TenDigits(last.args[1])
        THEN ~last.raised /\ After.phones = Append(Before.phones, last.args[1])
        ELSE last.raised /\ After.phones = Before.phones

(***************************************************************************)
(* C2.  A Record's birthday is set at most once: it goes from None to a    *)
(* date only through an add_birthday that succeeds, an add_birthday with   *)
(* an unparsable date leaves it None, and once it is set every later       *)
(* add_birthday fails and no method of the Record changes or clears it.    *)
(***************************************************************************)
C2_BirthdaySetAtMostOnce ==
    MethodCalled =>
        /\ Before.birthday # None => After.birthday = Before.birthday
        /\ (Before.birthday # None /\ last.op = "add_birthday") => last.raised
        /\ (Before.birthday = None /\ After.birthday # None) =>
               last.op = "add_birthday" /\ ~last.raised
        /\ (last.op = "add_birthday" /\ ~last.raised) =>
               Before.birthday = None /\ After.birthday # None
        /\ (last.op = "add_birthday" /\ StrptimeRaises(last.args[1])) =>
               last.raised /\ After.birthday = Before.birthday

\* a second add_birthday, with another date that parses, has failed
C2_Witness ==
    /\ last.op = "add_birthday"
    /\ last.raised
    /\ ~StrptimeRaises(last.args[1])
    /\ Before.birthday # None
    /\ Before.birthday # Strptime(last.args[1])

(***************************************************************************)
(* C8.  As claimed: for every number old in the phone list and every valid *)
(* 10-digit number new, after edit_phone(old, new) the list no longer      *)
(* contains old and contains new.                                          *)
(***************************************************************************)
C8_EditPhoneAsClaimed ==
    (/\ last.op = "edit_phone"
     /\ last.args[1] \in Range(Before.phones)
     /\ TenDigits(last.args[2])) =>
        /\ last.args[1] \notin Range(After.phones)
        /\ last.args[2] \in Range(After.phones)

(***************************************************************************)
(* C8, amended.  For every number old in the phone list and every valid    *)
(* 10-digit number new other than old, after edit_phone(old, new) the list *)
(* no longer contains old and contains new; with new equal to old the list *)
(* contains it once, at the end.                                           *)
(***************************************************************************)
C8_EditPhoneReplaces ==
    (/\ last.op = "edit_phone"
     /\ last.args[1] \in Range(Before.phones)
     /\ TenDigits(last.args[2])) =>
        /\ ~last.raised
        /\ last.args[2] \in Range(After.phones)
        /\ last.args[1] # last.args[2] => last.args[1] \notin Range(After.phones)
        /\ last.args[1] = last.args[2] =>
               /\ After.phones[Len(After.phones)] = last.args[1]
               /\ \A i \in 1..(Len(After.phones) - 1) :
                      After.phones[i] # last.args[1]

\* edit_phone has replaced a number the list held twice by another one
C8_Witness ==
    /\ last.op = "edit_phone"
    /\ TenDigits(last.args[2])
    /\ last.args[1] # last.args[2]
    /\ \E i, j \in 1..Len(Before.phones) :
           i # j /\ Before.phones[i] = last.args[1] /\ Before.phones[j] = last.args[1]
    /\ Len(After.phones) = Len(Before.phones) - 1

(***************************************************************************)
(* C9.  Creating a Record with an empty name fails, so that every Record's *)
(* name is non-empty; a Record starts with an empty phone list and no      *)
(* birthday, and no operation changes its name afterwards.                 *)
(***************************************************************************)
C9_NameNeverEmpty ==
    /\ \A i \in 1..Len(book) : book[i].name # <<>>
    /\ last.op = "Record" =>
           After.name = last.args[1] /\ After.phones = <<>> /\ After.birthday = None
    /\ MethodCalled => After.name = Before.name

(***************************************************************************)
(* Vocabulary of the properties about commands: the record a name has in a *)
(* book, and a command that ended in an error (an exception that           *)
(* input_error caught, or the reply that the name is unknown).             *)
(***************************************************************************)
Has(b, name) == \E i \in 1..Len(b) : b[i].name = name

Rec(b, name) == b[CHOOSE i \in 1..Len(b) : b[i].name = name]

NamesOf(b) == {b[i].name : i \in 1..Len(b)}

EndedInError == last.raised \/ last.msg = "No contact found with name"

(***************************************************************************)
(* C4.  Every command that ends in an error (bad phone format, bad date    *)
(* format, duplicate birthday, unknown name, wrong number of arguments)    *)
(* leaves the book and every Record in it as they were; in particular an   *)
(* add command whose phone fails validation does not change the set of     *)
(* names in the book.  (The exception the claim makes, an edit_phone with  *)
(* an invalid new number, is left out of the formula.)                     *)
(***************************************************************************)
C4_ErrorsLeaveStateUnchanged ==
    /\ (/\ EndedInError
        /\ ~(last.op = "change" /\ Len(last.args) = 2 /\ ~TenDigits(last.args[2])))
           => book = prev
    /\ (last.op = "add" /\ last.raised) => NamesOf(book) = NamesOf(prev)

(***************************************************************************)
(* C5.  The change command, for a name in the book with at least one phone *)
(* and a valid 10-digit new phone: afterwards the contact's phone list     *)
(* contains the new phone, no longer contains the number that was first    *)
(* (when it differs from the new one), and has the same length as before.  *)
(***************************************************************************)
C5_ChangeReplacesFirstPhone ==
    (/\ last.op = "change"
     /\ Len(last.args) = 2
     /\ Has(prev, last.args[1])
     /\ Rec(prev, last.args[1]).phones # <<>>
     /\ TenDigits(last.args[2])) =>
        LET old == Rec(prev, last.args[1]).phones
            new == Rec(book, last.args[1]).phones
        IN /\ last.args[2] \in Range(new)
           /\ old[1] # last.args[2] => old[1] \notin Range(new)
           /\ Len(new) = Len(old)

(***************************************************************************)
(* C6.  The phone command with the name as its only argument, for a        *)
(* contact of the book that has phones (as after add name phone), returns  *)
(* a response that carries a phone stored on that contact, the only one    *)
(* when there is one, and changes no state.                                *)
(***************************************************************************)
C6_PhoneReportsStoredPhone ==
    (/\ last.op = "phone"
     /\ Len(last.args) = 1
     /\ Has(prev, last.args[1])
     /\ Rec(prev, last.args[1]).phones # <<>>) =>
        /\ ~last.raised
        /\ last.msg = "Phone number for"
        /\ last.vals[2] \in Range(Rec(prev, last.args[1]).phones)
        /\ book = prev

(***************************************************************************)
(* C7.  An add command for a name already in the book never replaces the   *)
(* Record: it appends the phone to the end of the contact's phone list,    *)
(* keeps the earlier phones in their order and the birthday, and leaves    *)
(* every other contact as it was (when the phone fails validation the     *)
(* command fails and nothing is appended); for a name not in the book the  *)
(* command that succeeds adds at the end of the book a Record holding that *)
(* one phone and no birthday.  A valid 10-digit phone always succeeds.     *)
(***************************************************************************)
C7_AddAppendsToExisting ==
    (last.op = "add" /\ Len(last.args) >= 2) =>
        LET name == last.args[1]
            phone == last.args[2]
        IN IF Has(prev, name)
           THEN LET i == CHOOSE k \in 1..Len(prev) : prev[k].name = name
                IN /\ Len(book) = Len(prev)
                   /\ \A j \in 1..Len(prev) : j # i => book[j] = prev[j]
                   /\ book[i].name = name
                   /\ book[i].birthday = prev[i].birthday
                   /\ book[i].phones = IF last.raised
                                       THEN prev[i].phones
                                       ELSE Append(prev[i].phones, phone)
                   /\ TenDigits(phone) => ~last.raised
           ELSE /\ ~last.raised =>
                      book = Append(prev, [name |-> name, phones |-> <<phone>>,
                                           birthday |-> None])
                /\ TenDigits(phone) => ~last.raised

\* a phone was added to a contact that had a birthday and two phones, next
\* to another contact
C7_Witness ==
    /\ last.op = "add"
    /\ Len(last.args) >= 2
    /\ ~last.raised
    /\ Has(prev, last.args[1])
    /\ Len(prev) = 2
    /\ Rec(prev, last.args[1]).birthday # None
    /\ Len(Rec(prev, last.args[1]).phones) = 2
    /\ Rec(prev, last.args[1]).phones[1] # Rec(prev, last.args[1]).phones[2]

(***************************************************************************)
(* Vocabulary of the properties about the birthday query.                  *)
(***************************************************************************)
\* the date with day number n, among the years of Clock
FromOrdinal(n) ==
    CHOOSE dt \in [y : 2029..2030, m : 1..12, d : 1..31] :
        ValidDate(dt.y, dt.m, dt.d) /\ Ordinal(dt) = n

\* month and day of birthday are those of a day from today to today + 7
MonthDayInWindow(birthday, today) ==
    \E k \in 0..7 :
        LET dt == FromOrdinal(today[1] + k)
        IN dt.m = birthday.m /\ dt.d = birthday.d

(***************************************************************************)
(* C3.  upcoming_birthdays returns exactly the Records that have a         *)
(* birthday whose month and day fall within [today, today + 7 days], the   *)
(* year of birth ignored; records without a birthday are never returned,   *)
(* and the result is in the book's insertion order.                        *)
(***************************************************************************)
C3_UpcomingByMonthAndDay ==
    last.op = "upcoming_birthdays" =>
        last.vals = SelectSeq(book, LAMBDA r :
                        r.birthday # None /\ MonthDayInWindow(r.birthday, last.now))

(***************************************************************************)
(* C10.  The 7-day window is inclusive at both ends by calendar day,       *)
(* whatever the time of day of the query: a record is returned if and only *)
(* if its stored birthday date is the current date, the current date plus  *)
(* 7 days, or a day between them.                                          *)
(***************************************************************************)
C10_WindowInclusiveByDay ==
    last.op = "upcoming_birthdays" =>
        \A i \in 1..Len(book) :
            book[i].birthday # None =>
                (book[i] \in Range(last.vals)
                    <=> Ordinal(book[i].birthday) \in last.now[1]..(last.now[1] + 7))

====
